---- MODULE Spec2Model ----
(***************************************************************************)
(* A model of the sudoku crate (src/src/lib.rs): the validated position    *)
(* Pos, the Cell, the board Sudoku with its peer queries, and the parser   *)
(* <Sudoku as FromStr>::from_str.                                          *)
(*                                                                         *)
(* Conventions.  A Rust call that may panic yields a record: Ok(v) when it *)
(* returns v, Panic(msg) when it panics.  Option<u8> is a sequence: <<>>   *)
(* is None and <<d>> is Some(d).  A char is a one-character string, a &str *)
(* a sequence of chars.  Vec slot i (from 0) is element i + 1 of the       *)
(* sequence that models the Vec.                                           *)
(***************************************************************************)
EXTENDS Naturals, Sequences, FiniteSets

VARIABLES text, status, err, cells, call, out

vars == <<text, status, err, cells, call, out>>

\* ------------------------------------------------------------ results

Ok(v) == [panic |-> FALSE, val |-> v]

Panic(msg) == [panic |-> TRUE, msg |-> msg]

\* The values of a u8.
U8 == 0..255

Range(s) == {s[i] : i \in DOMAIN s}

Min(S) == CHOOSE m \in S : \A n \in S : m <= n

Max(S) == CHOOSE m \in S : \A n \in S : n <= m

\* ---------------------------------------------------------------- Pos

\* A plausible slip: the two bounds joined with && instead of ||.
PosNewAnd(x, y) ==
    IF x > 8 /\ y > 8
      THEN Panic("Position out of bounds.")
      ELSE Ok([x |-> x, y |-> y])

\* Pos::new
PosNew(x, y) ==
    IF x > 8 \/ y > 8
      THEN Panic("Position out of bounds.")
      ELSE Ok([x |-> x, y |-> y])

\* A plausible slip: the quotient and the remainder exchanged.
from_index_swapped(i) ==
    IF i > 80
      THEN Panic("Position index out of bounds.")
      ELSE Ok([x |-> (i \div 9) % 256, y |-> (i % 9) % 256])

\* Pos::from_index; "as u8" truncates to 8 bits.
from_index(i) ==
    IF i > 80
      THEN Panic("Position index out of bounds.")
      ELSE Ok([x |-> (i % 9) % 256, y |-> (i \div 9) % 256])

\* self.y * 9 + self.x before it is cut to the u8 it is computed in.
to_index_wide(p) == p.y * 9 + p.x

\* Pos::to_index: the u8 result (wrapped when the wide value does not fit),
\* widened to usize.
to_index(p) == to_index_wide(p) % 256

\* Every Pos value a program can hold: the fields are private, so a Pos
\* comes from Pos::new or Pos::from_index (or is a copy of one).
Positions ==
    {PosNew(x, y).val : x \in 0..8, y \in 0..8}
      \cup {from_index(i).val : i \in 0..80}

\* --------------------------------------------------------------- Cell

\* Cell::new
CellNew(value, position) ==
    IF value # <<>> /\ (value[1] = 0 \/ value[1] > 9)
      THEN Panic("Cell number is invalid.")
      ELSE Ok([value |-> value, position |-> position])

\* Option<u8>
OptionU8 == {<<>>} \cup {<<v>> : v \in U8}

\* ------------------------------------------------------ pure-call spec

NoCall == [op |-> "none"]

Idle == [call |-> NoCall]

\* The largest usize handed to Pos::from_index.
MaxIndexArg == 100

\* The call the program makes: any of the four, on any arguments of its types.
IsPosCall(c) ==
    \/ \E x \in U8, y \in U8 : c = [op |-> "Pos::new", x |-> x, y |-> y]
    \/ \E i \in 0..MaxIndexArg : c = [op |-> "Pos::from_index", i |-> i]
    \/ \E p \in Positions : c = [op |-> "Pos::to_index", pos |-> p]
    \/ \E v \in OptionU8, p \in Positions :
         c = [op |-> "Cell::new", value |-> v, position |-> p]

InitPos ==
    /\ text = <<>>
    /\ status = "init"
    /\ err = ""
    /\ cells = <<>>
    /\ IsPosCall(call)
    /\ out = Idle

CallPosNew ==
    /\ call.op = "Pos::new"
    /\ out = Idle
    /\ out' = [call |-> call, ret |-> PosNew(call.x, call.y)]
    /\ UNCHANGED <<text, status, err, cells, call>>

CallFromIndex ==
    /\ call.op = "Pos::from_index"
    /\ out = Idle
    /\ out' = [call |-> call, ret |-> from_index(call.i)]
    /\ UNCHANGED <<text, status, err, cells, call>>

CallToIndex ==
    /\ call.op = "Pos::to_index"
    /\ out = Idle
    /\ out' = [call |-> call, ret |-> Ok(to_index(call.pos))]
    /\ UNCHANGED <<text, status, err, cells, call>>

CallCellNew ==
    /\ call.op = "Cell::new"
    /\ out = Idle
    /\ out' = [call |-> call, ret |-> CellNew(call.value, call.position)]
    /\ UNCHANGED <<text, status, err, cells, call>>

NextPos == CallPosNew \/ CallFromIndex \/ CallToIndex \/ CallCellNew

SpecPos == InitPos /\ [][NextPos]_vars

\* --------------------------------------------------------------- text

\* char::is_ascii_digit
is_ascii_digit(c) == c \in {"0", "1", "2", "3", "4", "5", "6", "7", "8", "9"}

\* char::to_digit(10) of an ASCII digit
to_digit(c) ==
    CASE c = "0" -> 0 [] c = "1" -> 1 [] c = "2" -> 2 [] c = "3" -> 3
      [] c = "4" -> 4 [] c = "5" -> 5 [] c = "6" -> 6 [] c = "7" -> 7
      [] c = "8" -> 8 [] c = "9" -> 9

\* char::is_whitespace, on the characters of the model's alphabet
is_whitespace(c) == c \in {" ", "\t", "\n"}

RECURSIVE trim_start(_)
trim_start(s) ==
    IF s # <<>> /\ is_whitespace(Head(s)) THEN trim_start(Tail(s)) ELSE s

RECURSIVE trim_end(_)
trim_end(s) ==
    IF s # <<>> /\ is_whitespace(s[Len(s)])
      THEN trim_end(SubSeq(s, 1, Len(s) - 1))
      ELSE s

\* A plausible slip: the text used as it came, untrimmed.
trim_nothing(s) == s

\* str::trim
trim(s) == trim_end(trim_start(s))

\* A plausible slip: '0' let through (only c > 9 tested, which no digit is).
is_invalid_char_zero_ok(c) ==
    IF is_ascii_digit(c)
      THEN to_digit(c) > 9
      ELSE c # "."

\* The closure handed to str::contains: whether c is not a puzzle character.
is_invalid_char(c) ==
    IF is_ascii_digit(c)
      THEN to_digit(c) = 0 \/ to_digit(c) > 9
      ELSE c # "."

\* The characters the match of the closure in from_str has an arm for.
ArmChars == {"1", "2", "3", "4", "5", "6", "7", "8", "9", "."}

\* A plausible slip in the copied arms: the arm of '9' left as Some(8).
arm_value_copied(c) ==
    CASE c = "1" -> <<1>> [] c = "2" -> <<2>> [] c = "3" -> <<3>>
      [] c = "4" -> <<4>> [] c = "5" -> <<5>> [] c = "6" -> <<6>>
      [] c = "7" -> <<7>> [] c = "8" -> <<8>> [] c = "9" -> <<8>>
      [] c = "." -> <<>>

\* The value each arm hands to Cell::new.
arm_value(c) ==
    CASE c = "1" -> <<1>> [] c = "2" -> <<2>> [] c = "3" -> <<3>>
      [] c = "4" -> <<4>> [] c = "5" -> <<5>> [] c = "6" -> <<6>>
      [] c = "7" -> <<7>> [] c = "8" -> <<8>> [] c = "9" -> <<9>>
      [] c = "." -> <<>>

\* The closure mapped over the enumerated chars: Pos::from_index(i) is
\* evaluated first, then Cell::new; any other char is unreachable!().
cell_of_char(i, c) ==
    IF c \in ArmChars
      THEN LET p == from_index(i)
           IN  IF p.panic THEN p ELSE CellNew(arm_value(c), p.val)
      ELSE Panic("internal error: entered unreachable code")

LengthError == "Sudoku str size was not 81."

CharError == "Sudoku str contains invalid characters."

\* <Sudoku as FromStr>::from_str
from_str(str) ==
    IF Len(trim(str)) # 81
      THEN [kind |-> "Err", msg |-> LengthError]
    ELSE IF \E k \in DOMAIN trim(str) : is_invalid_char(trim(str)[k])
      THEN [kind |-> "Err", msg |-> CharError]
    ELSE LET t  == trim(str)
             rs == [k \in 1..Len(t) |-> cell_of_char(k - 1, t[k])]
         IN  IF \E k \in DOMAIN rs : rs[k].panic
               THEN [kind |-> "Panic",
                     msg |-> rs[CHOOSE k \in DOMAIN rs : rs[k].panic /\
                               \A j \in 1..(k - 1) : ~rs[j].panic].msg]
               ELSE [kind |-> "Ok", cells |-> [k \in DOMAIN rs |-> rs[k].val]]

\* ------------------------------------------------------------- inputs

\* The puzzle of the crate's tests.
Puzzle ==
    << ".", "5", ".", ".", "8", "3", ".", "1", "7",
       ".", ".", ".", "1", ".", ".", "4", ".", ".",
       "3", ".", "4", ".", ".", "5", "6", ".", "8",
       ".", ".", ".", ".", "3", ".", ".", ".", "9",
       ".", "9", ".", "8", "2", "4", "5", ".", ".",
       ".", ".", "6", ".", ".", ".", ".", "7", ".",
       ".", ".", "9", ".", ".", ".", ".", "5", ".",
       ".", ".", "7", "2", "9", ".", ".", "8", "6",
       "1", ".", "3", "6", ".", "7", "2", ".", "4" >>

DigitChar(d) ==
    CASE d = 1 -> "1" [] d = 2 -> "2" [] d = 3 -> "3" [] d = 4 -> "4"
      [] d = 5 -> "5" [] d = 6 -> "6" [] d = 7 -> "7" [] d = 8 -> "8"
      [] d = 9 -> "9"

\* A filled grid: every cell present.
Solved ==
    [k \in 1..81 |->
       LET x == (k - 1) % 9
           y == (k - 1) \div 9
       IN  DigitChar(((y * 3 + y \div 3 + x) % 9) + 1)]

Subst(b, k, c) == [b EXCEPT ![k] = c]

Insert(b, k, c) == SubSeq(b, 1, k - 1) \o <<c>> \o SubSeq(b, k, Len(b))

Delete(b, k) == SubSeq(b, 1, k - 1) \o SubSeq(b, k + 1, Len(b))

\* Where a text is edited: its first, a middle and its last character.
EditAt == {1, 41, 81}

EditChars == {".", "0", "1", "9", "a", " ", "\n"}

Edits(b) ==
    {b}
      \cup {Subst(b, k, c) : k \in EditAt, c \in EditChars}
      \cup {Insert(b, k, c) : k \in EditAt, c \in EditChars}
      \cup {Delete(b, k) : k \in EditAt}

\* The longest run of whitespace put before and after a text.
MaxPad == 1

Pad(n, c) == [k \in 1..n |-> c]

Padded(bodies) ==
    {Pad(l, " ") \o b \o Pad(r, "\n") : l \in 0..MaxPad, r \in 0..MaxPad,
                                        b \in bodies}

ParseTexts == Padded(Edits(Puzzle) \cup Edits(Solved) \cup {<<>>, <<"5">>})

\* ----------------------------------------------------------- from_str

InitParse ==
    /\ text \in ParseTexts
    /\ status = "init"
    /\ err = ""
    /\ cells = <<>>
    /\ call = NoCall
    /\ out = Idle

\* let board = text.parse::<Sudoku>()
FromStr ==
    /\ status = "init"
    /\ LET r == from_str(text)
       IN  /\ status' = r.kind
           /\ err' = IF r.kind = "Ok" THEN "" ELSE r.msg
           /\ cells' = IF r.kind = "Ok" THEN r.cells ELSE <<>>
    /\ UNCHANGED <<text, call, out>>

NextParse == FromStr

SpecParse == InitParse /\ [][NextParse]_vars

\* -------------------------------------------------------------- Sudoku

\* Sudoku::iter: the cells in slot order.
iter(cs) == cs

\* Sudoku::get_rest_of_row
get_rest_of_row(cs, pos) ==
    LET present == SelectSeq(iter(cs), LAMBDA c : c.value # <<>>)
        peers   == SelectSeq(present,
                     LAMBDA c : c.position.y = pos.y /\ c.position.x # pos.x)
    IN  [k \in DOMAIN peers |-> peers[k].value[1]]

\* Sudoku::get_rest_of_column
get_rest_of_column(cs, pos) ==
    LET present == SelectSeq(iter(cs), LAMBDA c : c.value # <<>>)
        peers   == SelectSeq(present,
                     LAMBDA c : c.position.x = pos.x /\ c.position.y # pos.y)
    IN  [k \in DOMAIN peers |-> peers[k].value[1]]

\* The match on pos.x, and the same match on pos.y, in get_rest_of_box.
box_origin(coord) ==
    CASE coord \in 1..2 -> 0
      [] coord \in 3..5 -> 3
      [] OTHER -> 6

\* Sudoku::get_rest_of_box; x + 2 and y + 2 are u8 sums.
get_rest_of_box(cs, pos) ==
    LET x == box_origin(pos.x)
        y == box_origin(pos.y)
        present == SelectSeq(iter(cs), LAMBDA c : c.value # <<>>)
        peers   == SelectSeq(present,
                     LAMBDA c : /\ c.position.x \in x..((x + 2) % 256)
                                /\ c.position.y \in y..((y + 2) % 256)
                                /\ c.position # pos)
    IN  [k \in DOMAIN peers |-> peers[k].value[1]]

\* A plausible slip: the position compared on x alone.
get_cell_at_pos_by_x(cs, pos) ==
    LET hits == {k \in DOMAIN cs : iter(cs)[k].position.x = pos.x}
    IN  IF hits = {}
          THEN Panic("called Option::unwrap() on a None value")
          ELSE Ok([slot |-> Min(hits) - 1, cell |-> cs[Min(hits)]])

\* Sudoku::get_cell_at_pos: the first cell of iter() with that position, as
\* the slot the reference points into and the cell there; unwrap panics
\* when there is none.
get_cell_at_pos(cs, pos) ==
    LET hits == {k \in DOMAIN cs : iter(cs)[k].position = pos}
    IN  IF hits = {}
          THEN Panic("called Option::unwrap() on a None value")
          ELSE Ok([slot |-> Min(hits) - 1, cell |-> cs[Min(hits)]])

\* How many times each element of a sequence occurs in it.
Yields(s) ==
    [d \in Range(s) |-> Cardinality({k \in DOMAIN s : s[k] = d})]

\* A plausible slip: the chain handed back as it is, not collected.
get_constraints_uncollected(c, cs) ==
    Yields(get_rest_of_row(cs, c.position)
             \o get_rest_of_column(cs, c.position)
             \o get_rest_of_box(cs, c.position))

\* Cell::get_constraints: the chain of the three queries collected into a
\* HashSet, whose into_iter yields each element once in an order the
\* library leaves open: the result is how many times each digit is yielded.
get_constraints(c, cs) ==
    LET chain == get_rest_of_row(cs, c.position)
                   \o get_rest_of_column(cs, c.position)
                   \o get_rest_of_box(cs, c.position)
        collected == Range(chain)
    IN  [d \in collected |-> 1]

\* -------------------------------------------------------- board spec

\* The texts a board is parsed from: the tests' puzzle, a filled grid after
\* whitespace, and a text one character short.
BoardTexts == {Puzzle, Pad(MaxPad, " ") \o Solved, Delete(Puzzle, 81)}

\* The slots a caller writes to through iter_mut, in the order they are
\* added as the bound grows.
WriteSlotList == <<0, 80, 40, 12>>

\* How many of them are written to.
MaxWriteSlots == 2

WriteSlots == {WriteSlotList[k] : k \in 1..MaxWriteSlots}

\* The values a caller hands to Cell::new for a write.
WriteValues == {<<>>, <<0>>, <<5>>, <<10>>}

\* The positions a caller hands to Cell::new for a write to slot i: the
\* slot's own, and the one of the slot counted from the other end.
WritePositions(i) == {from_index(i).val, from_index(80 - i).val}

Init ==
    /\ text \in BoardTexts
    /\ status = "init"
    /\ err = ""
    /\ cells = <<>>
    /\ call = NoCall
    /\ out = Idle

\* The board is there and no result of an earlier call is still borrowed
\* from it.
Ready == status = "Ok" /\ out = Idle

\* board.iter().collect()
Iter ==
    /\ Ready
    /\ out' = [call |-> [op |-> "iter"], ret |-> Ok(iter(cells))]
    /\ UNCHANGED <<text, status, err, cells, call>>

\* board.get_rest_of_row(p).collect()
RestOfRow(p) ==
    /\ Ready
    /\ out' = [call |-> [op |-> "get_rest_of_row", pos |-> p],
               ret |-> Ok(get_rest_of_row(cells, p))]
    /\ UNCHANGED <<text, status, err, cells, call>>

\* board.get_rest_of_column(p).collect()
RestOfColumn(p) ==
    /\ Ready
    /\ out' = [call |-> [op |-> "get_rest_of_column", pos |-> p],
               ret |-> Ok(get_rest_of_column(cells, p))]
    /\ UNCHANGED <<text, status, err, cells, call>>

\* board.get_rest_of_box(p).collect()
RestOfBox(p) ==
    /\ Ready
    /\ out' = [call |-> [op |-> "get_rest_of_box", pos |-> p],
               ret |-> Ok(get_rest_of_box(cells, p))]
    /\ UNCHANGED <<text, status, err, cells, call>>

\* board.get_cell_at_pos(p)
GetCellAtPos(p) ==
    /\ Ready
    /\ out' = [call |-> [op |-> "get_cell_at_pos", pos |-> p],
               ret |-> get_cell_at_pos(cells, p)]
    /\ UNCHANGED <<text, status, err, cells, call>>

\* c.get_constraints(&board), c the cell in slot i
GetConstraints(i) ==
    /\ Ready
    /\ out' = [call |-> [op |-> "get_constraints", slot |-> i],
               ret |-> Ok(get_constraints(cells[i + 1], cells))]
    /\ UNCHANGED <<text, status, err, cells, call>>

\* *board.iter_mut().nth(i).unwrap() = Cell::new(v, p): the cell is built
\* first, and a panic of Cell::new leaves the board as it was.
Write(i, v, p) ==
    /\ Ready
    /\ LET c == CellNew(v, p)
       IN  IF c.panic
             THEN /\ out' = [call |-> [op |-> "Cell::new", value |-> v,
                                       position |-> p],
                             ret |-> c]
                  /\ cells' = cells
             ELSE /\ cells' = [cells EXCEPT ![i + 1] = c.val]
                  /\ out' = out
    /\ UNCHANGED <<text, status, err, call>>

\* The result of a call that returned goes out of scope.
Drop ==
    /\ out # Idle
    /\ ~out.ret.panic
    /\ out' = Idle
    /\ UNCHANGED <<text, status, err, cells, call>>

Next ==
    \/ FromStr
    \/ Iter
    \/ \E p \in Positions : RestOfRow(p)
    \/ \E p \in Positions : RestOfColumn(p)
    \/ \E p \in Positions : RestOfBox(p)
    \/ \E p \in Positions : GetCellAtPos(p)
    \/ \E i \in 0..80 : GetConstraints(i)
    \/ \E i \in WriteSlots, v \in WriteValues :
         \E p \in WritePositions(i) : Write(i, v, p)
    \/ Drop

Spec == Init /\ [][Next]_vars

\* ============================================================= claims

\* The text without its leading and trailing whitespace: from its first to
\* its last character that is not whitespace.
Trimmed(s) ==
    LET solid == {k \in DOMAIN s : ~is_whitespace(s[k])}
    IN  IF solid = {} THEN <<>> ELSE SubSeq(s, Min(solid), Max(solid))

PuzzleChars == {".", "1", "2", "3", "4", "5", "6", "7", "8", "9"}

\* How many characters of the text are not whitespace.
SolidCount(s) == Cardinality({k \in DOMAIN s : ~is_whitespace(s[k])})

\* C4: from_str never panics and ends in exactly one of three outcomes: the
\* length error iff the trimmed text does not have 81 characters, the
\* invalid-character error iff it has 81 and one of them is outside
\* {'.', '1'..'9'}, Ok otherwise; an error leaves no board.
ThmC4_ParseOutcomes ==
    status # "init" =>
      LET t == Trimmed(text)
          allValid == \A k \in DOMAIN t : t[k] \in PuzzleChars
      IN  /\ status \in {"Ok", "Err"}
          /\ (status = "Err" /\ err = LengthError) <=> Len(t) # 81
          /\ (status = "Err" /\ err = CharError) <=> (Len(t) = 81 /\ ~allValid)
          /\ status = "Ok" <=> (Len(t) = 81 /\ allValid)
          /\ status = "Err" => cells = <<>>

\* A text of 81 characters with a '0' among them was refused for its characters.
WitC4_ZeroRefused ==
    /\ status = "Err"
    /\ err = CharError
    /\ Len(Trimmed(text)) = 81
    /\ "0" \in Range(Trimmed(text))
    /\ cells = <<>>

\* C5: a successful from_str yields 81 cells; the cell in slot i has position
\* (i % 9, i / 9), is empty where character i of the trimmed text is '.' and
\* holds d where it is the digit d.
ThmC5_ParsedCells ==
    status = "Ok" =>
      LET t == Trimmed(text)
      IN  /\ Len(cells) = 81
          /\ \A i \in 0..80 :
               /\ cells[i + 1].position = [x |-> i % 9, y |-> i \div 9]
               /\ t[i + 1] = "." => cells[i + 1].value = <<>>
               /\ \A d \in 1..9 :
                    t[i + 1] = DigitChar(d) => cells[i + 1].value = <<d>>

\* A padded puzzle was parsed: slot 80 holds the 9 written over the last
\* character, slot 0 is empty.
WitC5_ParsedPadded ==
    /\ status = "Ok"
    /\ Len(text) > 81
    /\ cells[81] = [value |-> <<9>>, position |-> [x |-> 8, y |-> 8]]
    /\ cells[1].value = <<>>

\* C6: from_index and to_index are mutually inverse on the valid domain, and
\* to_index of Pos::new(x, y) is y*9 + x, computed without leaving the u8.
ThmC6_IndexRoundTrip ==
    /\ (out.call.op = "Pos::from_index" /\ out.call.i <= 80) =>
         /\ ~out.ret.panic
         /\ to_index(out.ret.val) = out.call.i
    /\ (out.call.op = "Pos::new" /\ out.call.x <= 8 /\ out.call.y <= 8) =>
         /\ ~out.ret.panic
         /\ to_index_wide(out.ret.val) <= 255
         /\ to_index(out.ret.val) = out.call.y * 9 + out.call.x
         /\ from_index(to_index(out.ret.val)) = Ok(out.ret.val)
         /\ out.ret.val = [x |-> out.call.x, y |-> out.call.y]
    /\ out.call.op = "Pos::to_index" =>
         /\ out.ret.val = out.call.pos.y * 9 + out.call.pos.x
         /\ from_index(out.ret.val) = Ok(out.call.pos)

\* Pos::from_index(32) returned the position (5, 3) of the crate's test.
WitC6_Index32 ==
    /\ out.call = [op |-> "Pos::from_index", i |-> 32]
    /\ out.ret = Ok([x |-> 5, y |-> 3])
    /\ to_index(out.ret.val) = 32

\* C8: the constructors fail exactly on the out-of-range inputs, and a
\* failed call produces no value.
ThmC8_ConstructorsReject ==
    /\ out.call.op = "Pos::new" =>
         (out.ret.panic <=> (out.call.x > 8 \/ out.call.y > 8))
    /\ out.call.op = "Pos::from_index" =>
         (out.ret.panic <=> out.call.i > 80)
    /\ out.call.op = "Cell::new" =>
         (~out.ret.panic <=>
            out.call.value \in {<<>>} \cup {<<d>> : d \in 1..9})
    /\ out.call.op \in {"Pos::new", "Pos::from_index", "Cell::new"} =>
         IF out.ret.panic
           THEN "val" \notin DOMAIN out.ret
           ELSE "val" \in DOMAIN out.ret

\* Cell::new(Some(10), _) was called and panicked.
WitC8_CellTenRejected ==
    /\ out.call.op = "Cell::new"
    /\ out.call.value = <<10>>
    /\ out.ret.panic

\* C9 as stated: the length error for every text that does not hold exactly
\* 81 characters that are not whitespace.
CexC9_SolidCountDecides ==
    (status # "init" /\ SolidCount(text) # 81) =>
      (status = "Err" /\ err = LengthError)

\* C9 amended: the length error exactly when the trimmed text does not have
\* 81 characters; a text of trimmed length 81 with whitespace between its
\* characters gets the invalid-character error.
ThmC9_TrimmedLengthDecides ==
    status # "init" =>
      LET t == Trimmed(text)
      IN  /\ (status = "Err" /\ err = LengthError) <=> Len(t) # 81
          /\ (Len(t) = 81 /\ \E k \in DOMAIN t : is_whitespace(t[k])) =>
               (status = "Err" /\ err = CharError)

\* A padded text of trimmed length 81 with a blank in the middle: refused
\* for its characters, not for its length.
WitC9_InnerBlank ==
    /\ status = "Err"
    /\ err = CharError
    /\ Len(text) > 81
    /\ Len(Trimmed(text)) = 81
    /\ SolidCount(text) = 80

\* The values of the cells in the slots S (elements of the sequence cs),
\* by ascending slot.
RECURSIVE ValuesAt(_, _)
ValuesAt(cs, S) ==
    IF S = {}
      THEN <<>>
      ELSE <<cs[Min(S)].value[1]>> \o ValuesAt(cs, S \ {Min(S)})

\* The origin of the box a coordinate lies in: 0 for 0..2, 3 for 3..5, 6
\* for 6..8.
BoxOriginOf(coord) == 3 * (coord \div 3)

\* C1 as stated: get_rest_of_box(p) takes the origin 0, 3 or 6 of each
\* coordinate of p and yields, by ascending slot, the values of exactly the
\* present cells positioned in the 3x3 box at that origin, p's own excepted.
CexC1_BoxPeers ==
    out.call.op = "get_rest_of_box" =>
      LET p  == out.call.pos
          ox == BoxOriginOf(p.x)
          oy == BoxOriginOf(p.y)
      IN  out.ret.val =
            ValuesAt(cells,
              {k \in DOMAIN cells :
                 /\ cells[k].value # <<>>
                 /\ cells[k].position.x \in ox..(ox + 2)
                 /\ cells[k].position.y \in oy..(oy + 2)
                 /\ cells[k].position # p})

\* The slots of the present cells in p's row, and in p's column, other than
\* those positioned at p.
RowPeerSlots(p) ==
    {k \in DOMAIN cells :
       /\ cells[k].value # <<>>
       /\ cells[k].position.y = p.y
       /\ cells[k].position.x # p.x}

ColumnPeerSlots(p) ==
    {k \in DOMAIN cells :
       /\ cells[k].value # <<>>
       /\ cells[k].position.x = p.x
       /\ cells[k].position.y # p.y}

\* C2 as stated: get_rest_of_row(p) yields, in ascending x, the values of
\* exactly the present cells with y = p.y and x # p.x, and
\* get_rest_of_column(p) the same in ascending y for x = p.x and y # p.y.
CexC2_RowColumnPeers ==
    /\ out.call.op = "get_rest_of_row" =>
         LET S == RowPeerSlots(out.call.pos)
         IN  /\ out.ret.val = ValuesAt(cells, S)
             /\ \A j \in S, k \in S :
                  j < k => cells[j].position.x < cells[k].position.x
    /\ out.call.op = "get_rest_of_column" =>
         LET S == ColumnPeerSlots(out.call.pos)
         IN  /\ out.ret.val = ValuesAt(cells, S)
             /\ \A j \in S, k \in S :
                  j < k => cells[j].position.y < cells[k].position.y

\* Every slot holds a cell with the slot's own position.
SlotsHoldOwnPositions ==
    \A k \in DOMAIN cells :
      cells[k].position = [x |-> (k - 1) % 9, y |-> (k - 1) \div 9]

\* C2 on the boards whose slots hold their own positions: there the
\* statement of C2 holds.
LemC2_OnOwnPositions == SlotsHoldOwnPositions => CexC2_RowColumnPeers

\* C3: get_constraints yields each digit at most once, and yields d iff one
\* of the three peer queries on the cell's position yields d.
ThmC3_ConstraintsAreUnion ==
    out.call.op = "get_constraints" =>
      LET p == cells[out.call.slot + 1].position
          b == out.ret.val
      IN  /\ \A d \in DOMAIN b : b[d] = 1
          /\ DOMAIN b = Range(get_rest_of_row(cells, p))
                         \cup Range(get_rest_of_column(cells, p))
                         \cup Range(get_rest_of_box(cells, p))

\* The constraints of the cell at (7, 1) of the tests' puzzle: 1, 4, 5, 6,
\* 7 and 8, each once.
WitC3_TestConstraints ==
    /\ text = Puzzle
    /\ cells = from_str(text).cells
    /\ out.call = [op |-> "get_constraints", slot |-> 16]
    /\ out.ret.val = [d \in {1, 4, 5, 6, 7, 8} |-> 1]

\* C7: on a board as from_str returned it, get_cell_at_pos(p) does not
\* panic and returns the cell in slot p.to_index(), whose position is p; no
\* other cell has that position.
ThmC7_LookupFindsSlot ==
    (out.call.op = "get_cell_at_pos" /\ cells = from_str(text).cells) =>
      LET p == out.call.pos
      IN  /\ ~out.ret.panic
          /\ out.ret.val.slot = to_index(p)
          /\ out.ret.val.cell = cells[to_index(p) + 1]
          /\ out.ret.val.cell.position = p
          /\ \A k \in DOMAIN cells :
               k # to_index(p) + 1 => cells[k].position # p

\* On the tests' puzzle, the lookup of (7, 1) returned slot 16, an empty
\* cell.
WitC7_LookupTestCell ==
    /\ text = Puzzle
    /\ cells = from_str(text).cells
    /\ out.call = [op |-> "get_cell_at_pos", pos |-> [x |-> 7, y |-> 1]]
    /\ out.ret = Ok([slot |-> 16,
                     cell |-> [value |-> <<>>,
                               position |-> [x |-> 7, y |-> 1]]])

\* C10 as stated: after any sequence of the public operations on a parsed
\* board there are 81 cells, the cell in slot i has position (i % 9, i / 9),
\* and every present value is in 1..9.
CexC10_BoardInvariant ==
    status = "Ok" =>
      /\ Len(cells) = 81
      /\ \A i \in 0..80 :
           /\ cells[i + 1].position = [x |-> i % 9, y |-> i \div 9]
           /\ cells[i + 1].value \in {<<>>} \cup {<<d>> : d \in 1..9}

\* What of C10 the writes cannot break: 81 cells, every present value in
\* 1..9.
LemC10_LengthAndValues ==
    status = "Ok" =>
      /\ Len(cells) = 81
      /\ \A k \in DOMAIN cells :
           cells[k].value \in {<<>>} \cup {<<d>> : d \in 1..9}

====
